---- MODULE Spec2Model ----
(***************************************************************************)
(* The LLM invocation layer of dataset-generation: get_llm, the            *)
(* VLLMWrapper and OPENROUTERWrapper adapters, their retry loop            *)
(* (invoke_model_with_messages), and the LLMCachePool / LLMHashCache they   *)
(* share.  Strings the code slices or strips (model names, system prompts)  *)
(* are sequences of one-character strings; strings the code only copies     *)
(* (prompts, responses) are opaque strings.  Temperatures are in tenths.    *)
(***************************************************************************)
EXTENDS Integers, Sequences, FiniteSets, TLC

VARIABLES adapters, pool, caches, call, returned

vars == <<adapters, pool, caches, call, returned>>

(* ------------------------------ bounds -------------------------------- *)
MaxAdapters == 2
MaxQueries == 2
MaxHistory == 1

(* ------------------------- program constants -------------------------- *)
TokenCeiling == 40960
VLLMMaxAttempts == 10
DefaultMaxAttempts == 10
BackoffSeconds == 5
VLLMPrefixLen == 5
OPENROUTERPrefixLen == 11

(* ------------------------------ strings ------------------------------- *)
None == <<"<None>">>
EmptyStr == <<>>

VLLMPrefix == <<"v","l","l","m","/">>
OPENROUTERPrefix == <<"o","p","e","n","r","o","u","t","e","r","/">>
NameClaude35 == <<"c","l","a","u","d","e","-","3","5">>
NameGpt4Turbo == <<"g","p","t","4","-","t","u","r","b","o">>
NameGpt4o == <<"g","p","t","4","-","o">>

\* python: sub in s
Contains(sub, s) ==
    \E i \in 1..(Len(s) - Len(sub) + 1) : SubSeq(s, i, i + Len(sub) - 1) = sub

\* python: s[n:]
SliceFrom(s, n) == SubSeq(s, n + 1, Len(s))

\* python: min((a, b))
Min(a, b) == IF a <= b THEN a ELSE b

IsSpace(c) == c \in {" ", "\t", "\n"}

RECURSIVE lstrip(_)
lstrip(s) == IF s # <<>> /\ IsSpace(Head(s)) THEN lstrip(Tail(s)) ELSE s

RECURSIVE rstrip(_)
rstrip(s) ==
    IF s # <<>> /\ IsSpace(s[Len(s)]) THEN rstrip(SubSeq(s, 1, Len(s) - 1)) ELSE s

\* python: s.strip()
strip(s) == rstrip(lstrip(s))

\* python: system_prompt or ""
OrEmpty(system_prompt) == IF system_prompt = None THEN EmptyStr ELSE system_prompt

(* ------------------------------ get_llm ------------------------------- *)
Dispatch(variant, model, temperature, max_tokens) ==
    [variant |-> variant, model |-> model,
     temperature |-> temperature, max_tokens |-> max_tokens]

\* every requested value becomes the ceiling
ClampTokensCeiling(max_tokens) == TokenCeiling

\* the requested value goes through unclamped
ClampTokensNone(max_tokens) == max_tokens

ClampTokens(max_tokens) == Min(max_tokens, TokenCeiling)

IsVLLMName(model_name) == Contains(VLLMPrefix, model_name)

IsOPENROUTERName(model_name) == Contains(OPENROUTERPrefix, model_name)

get_llm(model_name, temperature, max_tokens) ==
    IF model_name = NameClaude35
    THEN Dispatch("Claude", <<"3",".","5">>, temperature, max_tokens)
    ELSE IF model_name = NameGpt4Turbo
    THEN Dispatch("GPT", <<"gpt-4-turbo-2024-04-09">>, temperature, ClampTokens(max_tokens))
    ELSE IF model_name = NameGpt4o
    THEN Dispatch("GPT", <<"gpt-4o-2024-11-20">>, temperature, ClampTokens(max_tokens))
    ELSE IF IsVLLMName(model_name)
    THEN Dispatch("VLLM", SliceFrom(model_name, VLLMPrefixLen), temperature,
                  ClampTokens(max_tokens))
    ELSE IF IsOPENROUTERName(model_name)
    THEN Dispatch("OPENROUTER", SliceFrom(model_name, OPENROUTERPrefixLen), temperature,
                  ClampTokens(max_tokens))
    ELSE Dispatch("NotImplementedError", <<>>, temperature, max_tokens)

(* ------------------- LLMCachePool and LLMHashCache -------------------- *)
\* the wrapper asks for its cache by temperature alone
CacheParamsTemperatureOnly(temperature, max_tokens) == <<temperature, 0>>

\* the registry key under which a wrapper asks for its cache
CacheParams(temperature, max_tokens) == <<temperature, max_tokens>>

\* LLMCachePool.get: the registered cache of the pair, or a fresh one
PoolHas(params) == params \in DOMAIN pool

PoolGetId(params) == IF PoolHas(params) THEN pool[params] ELSE Len(caches) + 1

PoolAfterGet(params) ==
    IF PoolHas(params) THEN pool
    ELSE [p \in DOMAIN pool \cup {params} |->
            IF p = params THEN Len(caches) + 1 ELSE pool[p]]

CachesAfterGet(params) ==
    IF PoolHas(params) THEN caches ELSE Append(caches, <<>>)

\* a cache is a function from <<model, hash>> to the stored entry
CacheKey(messages_hash, model) == <<model, messages_hash>>

has_hash(cache, messages_hash, model) == CacheKey(messages_hash, model) \in DOMAIN cache

get_result(cache, messages_hash, model) == cache[CacheKey(messages_hash, model)].response

CachePut(cache, messages_hash, payload, response, model) ==
    [k \in DOMAIN cache \cup {CacheKey(messages_hash, model)} |->
        IF k = CacheKey(messages_hash, model)
        THEN [payload |-> payload, response |-> response]
        ELSE cache[k]]

\* add_result on a key already present overwrites it or leaves it
add_result(cache, messages_hash, payload, response, model) ==
    IF has_hash(cache, messages_hash, model)
    THEN {cache, CachePut(cache, messages_hash, payload, response, model)}
    ELSE {CachePut(cache, messages_hash, payload, response, model)}

\* hash_messages(messages, system_prompt=None): a digest that separates
\* every two inputs
hash_messages(messages, system_prompt) ==
    [messages |-> messages, system_prompt |-> system_prompt]

(* --------------------------- input domains ---------------------------- *)
NameVLLM == VLLMPrefix \o <<"m">>
NameOPENROUTER == OPENROUTERPrefix \o <<"m">>
NameBoth == OPENROUTERPrefix \o VLLMPrefix \o <<"m">>
NameUnknown == <<"l","l","a","m","a">>

ModelNames == {NameVLLM, NameOPENROUTER}
AllModelNames ==
    {NameVLLM, NameOPENROUTER, NameBoth, NameUnknown,
     NameClaude35, NameGpt4Turbo, NameGpt4o}
\* <<temperature in tenths, requested max_tokens>>
GenParams == {<<0, 50>>}
AllGenParams == {<<0, 50>>, <<0, 512>>, <<0, 40960>>, <<0, 100000>>, <<7, 512>>}
TokenParams == {<<0, 50>>, <<0, 100000>>}
SystemPrompts == {None, EmptyStr, <<" ">>, <<"S">>}
HistoryPrompts == {EmptyStr, <<"S">>}
UserPrompts == {"2+2?"}
HistoryPairs == {<<"1+1?", "2">>}
Histories == UNION {[1..n -> HistoryPairs] : n \in 0..MaxHistory}
Responses == {"4", "5"}
Outcomes == {"ok", "ratelimit", "error"}
Threads == {1, 2}
ModelledVariants == {"VLLM", "OPENROUTER"}

(* ------------------------------- state -------------------------------- *)
NoRequest == [model |-> <<>>, messages |-> <<>>, temperature |-> 0, max_tokens |-> 0]

NoInfo == [type |-> "", model |-> <<>>, temperature |-> 0, max_tokens |-> 0]

IdleCall ==
    [pc |-> "idle", adapter |-> 0, kind |-> "none",
     system_prompt |-> None, messages |-> <<>>,
     messages_hash |-> hash_messages(<<>>, None),
     attempts |-> 0, new_messages |-> <<>>, response |-> "",
     result |-> "", info |-> NoInfo, error |-> "none",
     \* history of the call: what was sent, how the backend answered
     sent |-> NoRequest, netcalls |-> 0, nOk |-> 0, nRate |-> 0, nOther |-> 0,
     sleeps |-> 0, slept |-> 0, held |-> FALSE, given |-> None,
     missed |-> FALSE, answers |-> {}]

Init ==
    /\ adapters = <<>>
    /\ pool = <<>>
    /\ caches = <<>>
    /\ call = [t \in Threads |-> IdleCall]
    \* history of the run: the responses the callers have received
    /\ returned = {}

(* ------------------------ wrapper construction ------------------------ *)
\* VLLMWrapper.__init__ / OPENROUTERWrapper.__init__ on get_llm's arguments
WrapperInit(d, model_name, max_tokens) ==
    [variant |-> d.variant, model |-> d.model,
     temperature |-> d.temperature, max_tokens |-> d.max_tokens,
     cache |-> PoolGetId(CacheParams(d.temperature, d.max_tokens)),
     count_queries |-> 0,
     req_name |-> model_name, req_max_tokens |-> max_tokens]

\* thread t, between two calls, asks get_llm for a wrapper
GetLLM(t, model_name, temperature, max_tokens) ==
    LET d == get_llm(model_name, temperature, max_tokens)
        params == CacheParams(d.temperature, d.max_tokens)
    IN /\ call[t].pc = "idle"
       /\ d.variant \in ModelledVariants
       /\ Len(adapters) < MaxAdapters
       /\ adapters' = Append(adapters, WrapperInit(d, model_name, max_tokens))
       /\ pool' = PoolAfterGet(params)
       /\ caches' = CachesAfterGet(params)
       /\ UNCHANGED <<call, returned>>

(* ------------------------ query / query_history ----------------------- *)
CacheOf(a) == caches[adapters[a].cache]

RECURSIVE SumQueries(_)
SumQueries(as) == IF as = <<>> THEN 0 ELSE Head(as).count_queries + SumQueries(Tail(as))

\* the callers make MaxQueries calls in all
MayQuery == SumQueries(adapters) < MaxQueries

\* the call leaves the counter as it was
CountQueryNone(a) == adapters

\* self.count_queries += 1
CountQuery(a) == [adapters EXCEPT ![a].count_queries = @ + 1]

\* the assertion is compiled away
AssertNothing(system_prompt) == TRUE

\* assert system_prompt is None or system_prompt == ''
AssertNoSystemPrompt(system_prompt) == system_prompt = None \/ system_prompt = EmptyStr

QueryMessages(user_prompt) == <<[role |-> "user", content |-> user_prompt]>>

RECURSIVE HistoryMessages(_)
HistoryMessages(history) ==
    IF history = <<>> THEN <<>>
    ELSE <<[role |-> "user", content |-> Head(history)[1]],
           [role |-> "assistant", content |-> Head(history)[2]]>>
         \o HistoryMessages(Tail(history))

QueryHistoryMessages(prompt, history) ==
    HistoryMessages(history) \o <<[role |-> "user", content |-> prompt]>>

StartedCall(a, kind, given, messages, messages_hash) ==
    [IdleCall EXCEPT !.pc = "has_hash", !.adapter = a, !.kind = kind,
                     !.given = given,
                     !.system_prompt = OrEmpty(given),
                     !.messages = messages, !.messages_hash = messages_hash,
                     !.held = has_hash(CacheOf(a), messages_hash, adapters[a].model)]

query(t, a, system_prompt, user_prompt) ==
    /\ call[t].pc = "idle"
    /\ a \in 1..Len(adapters)
    /\ MayQuery
    /\ adapters' = CountQuery(a)
    /\ IF AssertNoSystemPrompt(system_prompt)
       THEN call' = [call EXCEPT ![t] =
                StartedCall(a, "query", system_prompt, QueryMessages(user_prompt),
                            hash_messages(QueryMessages(user_prompt), None))]
       ELSE call' = [call EXCEPT ![t] =
                [IdleCall EXCEPT !.pc = "raised", !.adapter = a, !.kind = "query",
                                 !.given = system_prompt,
                                 !.error = "AssertionError"]]
    /\ UNCHANGED <<pool, caches, returned>>

query_history(t, a, system_prompt, prompt, history) ==
    /\ call[t].pc = "idle"
    /\ a \in 1..Len(adapters)
    /\ MayQuery
    /\ adapters' = CountQuery(a)
    /\ call' = [call EXCEPT ![t] =
            StartedCall(a, "query_history", system_prompt,
                        QueryHistoryMessages(prompt, history),
                        hash_messages(QueryHistoryMessages(prompt, history),
                                      system_prompt))]
    /\ UNCHANGED <<pool, caches, returned>>

\* the call reads the cache whatever the lookup said
NeedsInvokeNever(cache, messages_hash, model) == FALSE

\* the lookup's answer is ignored
NeedsInvokeAlways(cache, messages_hash, model) == TRUE

\* if not self.cache.has_hash(messages_hash, self.model)
NeedsInvoke(cache, messages_hash, model) == ~has_hash(cache, messages_hash, model)

CheckCache(t) ==
    LET c == call[t]
    IN /\ c.pc = "has_hash"
       /\ call' = [call EXCEPT
             ![t].pc =
                IF NeedsInvoke(CacheOf(c.adapter), c.messages_hash, adapters[c.adapter].model)
                THEN "invoke" ELSE "get_result",
             ![t].missed =
                ~has_hash(CacheOf(c.adapter), c.messages_hash, adapters[c.adapter].model)]
       /\ UNCHANGED <<adapters, pool, caches, returned>>

(* --------------------- invoke_model_with_messages --------------------- *)
\* the list the loop body builds before the request
BuildNewMessages(system_prompt, messages) ==
    (IF system_prompt # None /\ Len(strip(system_prompt)) > 0
     THEN <<[role |-> "system", content |-> system_prompt]>>
     ELSE <<>>)
    \o [i \in 1..Len(messages) |->
          IF messages[i].role = "user"
          THEN [role |-> "user", content |-> messages[i].content]
          ELSE [role |-> "assistant", content |-> messages[i].content]]

\* client.chat.completions.create(model=, messages=, temperature=, max_tokens=)
Request(a, c) ==
    [model |-> adapters[a].model, messages |-> c.messages,
     temperature |-> adapters[a].temperature, max_tokens |-> adapters[a].max_tokens]

\* attempts += 1, the list is built and the request goes out
\* the request goes out but the attempt is not counted
AttemptedNoCount(c) ==
    [c EXCEPT !.new_messages = BuildNewMessages(c.system_prompt, c.messages),
              !.sent = Request(c.adapter, c),
              !.netcalls = @ + 1]

Attempted(c) ==
    [c EXCEPT !.attempts = @ + 1,
              !.new_messages = BuildNewMessages(c.system_prompt, c.messages),
              !.sent = Request(c.adapter, c),
              !.netcalls = @ + 1]

\* the loop test is off by one
LoopAgainOffByOne(attempts, max_attempts) == attempts <= max_attempts

\* while attempts < max_attempts: ... raise ValueError(...)
LoopAgain(attempts, max_attempts) == attempts < max_attempts

\* a call out of attempts goes on to store what it has
AfterHandlerStores(c, max_attempts) ==
    IF LoopAgain(c.attempts, max_attempts) THEN c
    ELSE [c EXCEPT !.pc = "add_result"]

AfterHandler(c, max_attempts) ==
    IF LoopAgain(c.attempts, max_attempts) THEN c
    ELSE [c EXCEPT !.pc = "raised", !.error = "ValueError"]

\* except openai.RateLimitError: time.sleep(5)
RateLimited(c) ==
    [c EXCEPT !.nRate = @ + 1, !.sleeps = @ + 1, !.slept = @ + BackoffSeconds]

\* return response.choices[0].message.content
OPENROUTEROnOk(c, text) ==
    [c EXCEPT !.nOk = @ + 1, !.response = text, !.pc = "add_result"]

\* what the backend answered the call, whatever the wrapper does with it
Answered(c, text) == [c EXCEPT !.answers = @ \cup {text}]

OPENROUTEROnOther(c) ==
    AfterHandler([c EXCEPT !.nOther = @ + 1], DefaultMaxAttempts)

OPENROUTERAttempt(t, outcome, text) ==
    LET c == call[t]
        d == Attempted(c)
    IN /\ c.pc = "invoke"
       /\ adapters[c.adapter].variant = "OPENROUTER"
       /\ (outcome = "ok") = (text # "")
       /\ call' = [call EXCEPT ![t] =
             CASE outcome = "ok" -> OPENROUTEROnOk(Answered(d, text), text)
               [] outcome = "ratelimit" -> AfterHandler(RateLimited(d), DefaultMaxAttempts)
               [] OTHER -> OPENROUTEROnOther(d)]
       /\ UNCHANGED <<adapters, pool, caches, returned>>

\* the response is bound to a local nobody reads and the loop goes on: the
\* body has no return
VLLMOnOk(c, text) ==
    AfterHandler([c EXCEPT !.nOk = @ + 1], VLLMMaxAttempts)

\* the handler's print names max_attempts, which this function never binds
VLLMOnOther(c) ==
    [c EXCEPT !.nOther = @ + 1, !.pc = "raised", !.error = "NameError"]

VLLMAttempt(t, outcome, text) ==
    LET c == call[t]
        d == Attempted(c)
    IN /\ c.pc = "invoke"
       /\ adapters[c.adapter].variant = "VLLM"
       /\ (outcome = "ok") = (text # "")
       /\ call' = [call EXCEPT ![t] =
             CASE outcome = "ok" -> VLLMOnOk(Answered(d, text), text)
               [] outcome = "ratelimit" -> AfterHandler(RateLimited(d), VLLMMaxAttempts)
               [] OTHER -> VLLMOnOther(d)]
       /\ UNCHANGED <<adapters, pool, caches, returned>>

(* ------------------ storing and returning the response ---------------- *)
\* json.dumps(messages): the payload kept beside the response
Payload(messages) == messages

\* the wrapper's cache is replaced by one that holds the new entry only
StoreResultAlone(cache, c, model) ==
    {CachePut(<<>>, c.messages_hash, Payload(c.messages), c.response, model)}

\* self.cache.add_result(messages_hash, json.dumps(messages), response, self.model)
StoreResult(cache, c, model) ==
    add_result(cache, c.messages_hash, Payload(c.messages), c.response, model)

AddResult(t) ==
    LET c == call[t]
        a == adapters[c.adapter]
    IN /\ c.pc = "add_result"
       /\ \E new \in StoreResult(caches[a.cache], c, a.model) :
             caches' = [caches EXCEPT ![a.cache] = new]
       /\ call' = [call EXCEPT ![t].pc = "get_result"]
       /\ UNCHANGED <<adapters, pool, returned>>

\* the text of the last network answer is returned, not the stored one
ReadResultLocal(cache, c, model) == c.response

\* response = self.cache.get_result(messages_hash, self.model)
ReadResult(cache, c, model) == get_result(cache, c.messages_hash, model)

GetResult(t) ==
    LET c == call[t]
        a == adapters[c.adapter]
    IN /\ c.pc = "get_result"
       /\ call' = [call EXCEPT ![t] =
             IF has_hash(caches[a.cache], c.messages_hash, a.model)
             THEN [c EXCEPT !.pc = "done",
                            !.result = ReadResult(caches[a.cache], c, a.model)]
             ELSE [c EXCEPT !.pc = "raised", !.error = "NotFound"]]
       /\ UNCHANGED <<adapters, pool, caches, returned>>

\* what a caller got, and for which wrapper arguments and conversation
Receipt(c) ==
    [req_name |-> adapters[c.adapter].req_name,
     temperature |-> adapters[c.adapter].temperature,
     max_tokens |-> adapters[c.adapter].max_tokens,
     messages_hash |-> c.messages_hash,
     missed |-> c.missed,
     response |-> c.result]

\* the caller has the dict or the exception; the thread is free again
Return(t) ==
    /\ call[t].pc \in {"done", "raised"}
    /\ call' = [call EXCEPT ![t] = IdleCall]
    /\ returned' = IF call[t].pc = "done" /\ call[t].kind # "get_info"
                   THEN returned \cup {Receipt(call[t])}
                   ELSE returned
    /\ UNCHANGED <<adapters, pool, caches>>

(* ------------------------------ get_info ------------------------------ *)
get_info(a) ==
    [type |-> "gpt", model |-> adapters[a].model,
     temperature |-> adapters[a].temperature, max_tokens |-> adapters[a].max_tokens]

GetInfo(t, a) ==
    /\ call[t].pc = "idle"
    /\ a \in 1..Len(adapters)
    /\ call' = [call EXCEPT ![t] =
            [IdleCall EXCEPT !.pc = "done", !.adapter = a, !.kind = "get_info",
                             !.info = get_info(a)]]
    /\ UNCHANGED <<adapters, pool, caches, returned>>

(* --------------------------- specifications --------------------------- *)
\* the steps of caller t, with the system prompts it passes to query and to
\* query_history, and the ways the backend may answer an attempt
Calls(t, queryPrompts, historyPrompts) ==
    \/ \E a \in 1..MaxAdapters, sp \in queryPrompts, up \in UserPrompts :
          query(t, a, sp, up)
    \/ \E a \in 1..MaxAdapters, sp \in historyPrompts, up \in UserPrompts, h \in Histories :
          query_history(t, a, sp, up, h)

Finish(t) ==
    \/ CheckCache(t)
    \/ AddResult(t)
    \/ GetResult(t)
    \/ Return(t)

Step(t, queryPrompts, historyPrompts, outcomes, responses) ==
    \/ Calls(t, queryPrompts, historyPrompts)
    \/ \E o \in outcomes, r \in responses \cup {""} : OPENROUTERAttempt(t, o, r)
    \/ \E o \in outcomes, r \in responses \cup {""} : VLLMAttempt(t, o, r)
    \/ Finish(t)

\* one caller, every backend behaviour, one generation setting
Next ==
    \/ \E n \in ModelNames, g \in GenParams : GetLLM(1, n, g[1], g[2])
    \/ Step(1, SystemPrompts, HistoryPrompts, Outcomes, Responses)

Spec == Init /\ [][Next]_vars

\* one caller, every system prompt, a backend that answers or fails
NextMsg ==
    \/ \E n \in ModelNames, g \in GenParams : GetLLM(1, n, g[1], g[2])
    \/ Step(1, SystemPrompts, SystemPrompts, {"ok", "error"}, Responses)

SpecMsg == Init /\ [][NextMsg]_vars

\* one caller repeating conversations without a system prompt, every backend
\* behaviour
NextHit ==
    \/ \E n \in ModelNames, g \in GenParams : GetLLM(1, n, g[1], g[2])
    \/ Step(1, {None}, {EmptyStr}, Outcomes, {"4"})

SpecHit == Init /\ [][NextHit]_vars

\* wrappers for every model name and generation setting
NextGet ==
    \E n \in AllModelNames, g \in AllGenParams : GetLLM(1, n, g[1], g[2])

SpecGet == Init /\ [][NextGet]_vars

\* one caller, requested token counts below and above the ceiling, a
\* backend that answers every attempt
NextClamp ==
    \/ \E n \in ModelNames, g \in TokenParams : GetLLM(1, n, g[1], g[2])
    \/ Step(1, {None}, {EmptyStr}, {"ok"}, {"4"})

SpecClamp == Init /\ [][NextClamp]_vars

\* one caller repeating conversations through wrappers of both variants, a
\* backend whose answers vary and that may fail
NextRepeat ==
    \/ \E n \in ModelNames, g \in GenParams : GetLLM(1, n, g[1], g[2])
    \/ Step(1, {None}, {EmptyStr}, {"ok", "error"}, Responses)

SpecRepeat == Init /\ [][NextRepeat]_vars

\* one caller passing query every system prompt, a backend that answers
NextAssert ==
    \/ \E n \in ModelNames, g \in GenParams : GetLLM(1, n, g[1], g[2])
    \/ Step(1, SystemPrompts, {EmptyStr}, {"ok"}, {"4"})

SpecAssert == Init /\ [][NextAssert]_vars

\* two callers whose calls interleave; the OpenRouter service answers, with
\* answers that vary, and the self-hosted server fails
NextConc ==
    \/ \E n \in ModelNames, g \in GenParams : GetLLM(1, n, g[1], g[2])
    \/ \E t \in Threads :
          \/ Calls(t, {None}, {EmptyStr})
          \/ \E r \in Responses : OPENROUTERAttempt(t, "ok", r)
          \/ VLLMAttempt(t, "error", "")
          \/ Finish(t)

SpecConc == Init /\ [][NextConc]_vars

\* two callers whose calls interleave, backends that answer every attempt,
\* with answers that vary
NextRace ==
    \/ \E n \in ModelNames, g \in GenParams : GetLLM(1, n, g[1], g[2])
    \/ \E t \in Threads :
          \/ Calls(t, {None}, {EmptyStr})
          \/ \E r \in Responses : OPENROUTERAttempt(t, "ok", r)
          \/ \E r \in Responses : VLLMAttempt(t, "ok", r)
          \/ Finish(t)

SpecRace == Init /\ [][NextRace]_vars

\* one caller and every backend behaviour, where each network attempt comes
\* to an end: the request returns or raises, and the sleep is over after 5 s
NetworkAttempt(t) ==
    \E o \in Outcomes, r \in {"4", ""} :
        OPENROUTERAttempt(t, o, r) \/ VLLMAttempt(t, o, r)

NextLive ==
    \/ \E n \in ModelNames, g \in GenParams : GetLLM(1, n, g[1], g[2])
    \/ \E a \in 1..MaxAdapters, up \in UserPrompts : query(1, a, None, up)
    \/ NetworkAttempt(1)
    \/ Finish(1)

SpecLive == Init /\ [][NextLive]_vars /\ WF_vars(NetworkAttempt(1))

\* one caller who also asks wrappers for their description, a backend whose
\* answers vary
NextInfo ==
    \/ \E n \in ModelNames, g \in GenParams : GetLLM(1, n, g[1], g[2])
    \/ Step(1, {None}, {EmptyStr}, {"ok"}, Responses)
    \/ \E a \in 1..MaxAdapters : GetInfo(1, a)

SpecInfo == Init /\ [][NextInfo]_vars

(* ------------------------------ claims -------------------------------- *)
Returned(c) == c.pc \in {"add_result", "get_result", "done"}

InNetworkPath(c) == c.netcalls > 0

StartsWith(prefix, s) == Len(s) >= Len(prefix) /\ SubSeq(s, 1, Len(prefix)) = prefix

\* C1: in both wrappers a successful network attempt ends the retry loop: the
\* call returns that attempt's text and makes no further attempt, so a backend
\* that answers the first attempt is called exactly once.
C1_SuccessReturnsAtOnce ==
    \A t \in Threads :
        call[t].nOk > 0 =>
            /\ Returned(call[t])
            /\ call[t].nOk = 1
            /\ (call[t].nRate = 0 /\ call[t].nOther = 0 => call[t].netcalls = 1)
            /\ (call[t].pc = "done" => call[t].result = call[t].response)

\* C2: a call that starts while the cache holds an entry for its
\* (model, fingerprint) makes no network attempt.
C2_CacheHitNoNetwork ==
    \A t \in Threads :
        call[t].held =>
            /\ call[t].netcalls = 0
            /\ call[t].attempts = 0
            /\ call[t].pc \notin {"invoke", "add_result", "raised"}

\* a repeated conversation answered from the cache, here through a wrapper
\* whose own calls never stored anything
C2_Witness ==
    \E t \in Threads :
        /\ call[t].held
        /\ call[t].pc = "done"
        /\ call[t].netcalls = 0
        /\ call[t].result \in Responses

\* C3: k rate-limit failures followed by a success make invoke return the
\* successful response after exactly k+1 attempts and k sleeps of 5.
C3_BoundedRetry ==
    \A t \in Threads :
        (call[t].nOk = 1 /\ call[t].nOther = 0 /\ call[t].attempts = call[t].nRate + 1) =>
            /\ Returned(call[t])
            /\ call[t].netcalls = call[t].nRate + 1
            /\ call[t].sleeps = call[t].nRate
            /\ call[t].slept = 5 * call[t].nRate
            /\ (call[t].pc = "done" => call[t].result = call[t].response)

\* C4: when every attempt is rate-limited the call fails with the
\* exhausted-retries error after exactly 10 attempts, and the failing call
\* leaves the cache as it was, without an entry for its key.
AllRateLimited(c) == c.netcalls > 0 /\ c.nRate = c.netcalls

C4_ExhaustionState ==
    \A t \in Threads :
        AllRateLimited(call[t]) =>
            \/ call[t].pc = "invoke" /\ call[t].attempts < 10
            \/ /\ call[t].pc = "raised"
               /\ call[t].error = "ValueError"
               /\ call[t].attempts = 10
               /\ call[t].netcalls = 10
               /\ ~has_hash(CacheOf(call[t].adapter), call[t].messages_hash,
                            adapters[call[t].adapter].model)

C4_ExhaustionStep ==
    \A t \in Threads :
        (call[t].pc = "invoke" /\ call'[t].pc \in {"invoke", "raised"}) => caches' = caches

C4_ExhaustionFatal == [] C4_ExhaustionState /\ [][C4_ExhaustionStep]_vars

C4_Witness ==
    \E t \in Threads :
        /\ call[t].pc = "raised"
        /\ call[t].error = "ValueError"
        /\ call[t].nRate = 10
        /\ call[t].sleeps = 10

\* C5: a failure other than a rate limit is retried without a sleep and counts
\* against the same attempt counter: attempts never exceed 10 and the sleeps
\* are exactly the rate-limit failures.
C5_OtherErrorsRetried ==
    \A t \in Threads :
        /\ call[t].attempts <= 10
        /\ call[t].netcalls <= 10
        /\ call[t].sleeps = call[t].nRate
        /\ call[t].slept = 5 * call[t].nRate
        /\ (call[t].nOther > 0 /\ call[t].nOk = 0 /\ call[t].attempts < 10 =>
                call[t].pc = "invoke")

\* C6: the only error the network path shows the caller is the
\* exhausted-retries error, raised when the attempt counter is at its maximum.
C6_OnlyExhaustionEscapes ==
    \A t \in Threads :
        (call[t].pc = "raised" /\ InNetworkPath(call[t])) =>
            call[t].error = "ValueError" /\ call[t].attempts = 10

\* C7: the messages sent on each attempt start with a system message carrying
\* the system prompt exactly when a non-blank system prompt was supplied,
\* followed by the turns in their order.
Supplied(system_prompt) == system_prompt # None /\ strip(system_prompt) # <<>>

C7_SystemMessageSent ==
    \A t \in Threads :
        InNetworkPath(call[t]) =>
            call[t].sent.messages =
                (IF Supplied(call[t].given)
                 THEN <<[role |-> "system", content |-> call[t].given]>>
                 ELSE <<>>) \o call[t].messages

\* C8: two adapters hold the same cache exactly when they were constructed
\* with equal (temperature, max_tokens).
C8_PartitionSharing ==
    \A a, b \in 1..Len(adapters) :
        (adapters[a].cache = adapters[b].cache) <=>
            (/\ adapters[a].temperature = adapters[b].temperature
             /\ adapters[a].max_tokens = adapters[b].max_tokens)

C8_Witness ==
    \E a, b \in 1..Len(adapters) :
        /\ a # b
        /\ adapters[a].variant # adapters[b].variant
        /\ adapters[a].temperature = adapters[b].temperature
        /\ adapters[a].max_tokens = adapters[b].max_tokens
        /\ adapters[a].cache = adapters[b].cache
        /\ Len(caches) = 1

\* C9: a vllm/ or openrouter/ adapter from get_llm sends
\* max_tokens = min(requested, 40960) on every network attempt.
C9_TokenClamping ==
    \A t \in Threads :
        InNetworkPath(call[t]) =>
            call[t].sent.max_tokens =
                (IF adapters[call[t].adapter].req_max_tokens <= 40960
                 THEN adapters[call[t].adapter].req_max_tokens
                 ELSE 40960)

C9_Witness ==
    \E t \in Threads :
        /\ InNetworkPath(call[t])
        /\ adapters[call[t].adapter].req_max_tokens = 100000
        /\ call[t].sent.max_tokens = 40960

\* C10: a name that begins with vllm/ or openrouter/ gets the adapter variant
\* of that leading prefix, and the model sent downstream is the name without
\* that leading prefix.
C10_PrefixDispatch ==
    /\ \A a \in 1..Len(adapters) :
          /\ StartsWith(VLLMPrefix, adapters[a].req_name) =>
                /\ adapters[a].variant = "VLLM"
                /\ adapters[a].req_name = VLLMPrefix \o adapters[a].model
          /\ StartsWith(OPENROUTERPrefix, adapters[a].req_name) =>
                /\ adapters[a].variant = "OPENROUTER"
                /\ adapters[a].req_name = OPENROUTERPrefix \o adapters[a].model
    /\ \A t \in Threads :
          InNetworkPath(call[t]) =>
              call[t].sent.model = adapters[call[t].adapter].model

\* the name asked of get_llm without its leading backend prefix
RequestedModel(model_name) ==
    IF SubSeq(model_name, 1, Len(VLLMPrefix)) = VLLMPrefix
    THEN SubSeq(model_name, Len(VLLMPrefix) + 1, Len(model_name))
    ELSE IF SubSeq(model_name, 1, Len(OPENROUTERPrefix)) = OPENROUTERPrefix
    THEN SubSeq(model_name, Len(OPENROUTERPrefix) + 1, Len(model_name))
    ELSE model_name

\* the wrappers built with the model and generation setting of receipt x
WrappersOf(x) ==
    {a \in 1..Len(adapters) :
        /\ RequestedModel(adapters[a].req_name) = RequestedModel(x.req_name)
        /\ adapters[a].temperature = x.temperature
        /\ adapters[a].max_tokens = x.max_tokens}

\* a call started now on wrapper a for the conversation of receipt x is
\* answered from the cache, with the response r
WouldReturn(a, x, r) ==
    /\ has_hash(CacheOf(a), x.messages_hash, adapters[a].model)
    /\ get_result(CacheOf(a), x.messages_hash, adapters[a].model) = r

\* response r for the conversation of receipt x on wrapper a is the backend's
\* answer to a call that had found no entry and has stored its answer
StoredAfterMiss(a, x, r) ==
    \/ \E y \in returned :
          /\ a \in WrappersOf(y)
          /\ y.messages_hash = x.messages_hash
          /\ y.missed
          /\ y.response = r
    \/ \E t \in Threads :
          /\ call[t].pc \in {"get_result", "done"}
          /\ call[t].kind \in {"query", "query_history"}
          /\ adapters[call[t].adapter].cache = adapters[a].cache
          /\ adapters[call[t].adapter].model = adapters[a].model
          /\ call[t].messages_hash = x.messages_hash
          /\ call[t].missed
          /\ call[t].response = r

\* C11 as stated: once a call has returned r for a conversation, model and
\* generation setting, every later call with the same arguments returns r,
\* whatever the backend would answer now.
C11_RepeatedCallSameResponse ==
    \A x \in returned : \A a \in WrappersOf(x) : WouldReturn(a, x, x.response)

\* C11: once a call has returned r for a conversation, model and generation
\* setting, every later call with the same arguments is answered from the
\* cache, whatever the backend would answer now; the answer is r, or, when
\* r is what one of several calls that had all found no entry stored, what
\* another of them stored over it.
C11_RepeatedCallStoredResponse ==
    \A x \in returned : \A a \in WrappersOf(x) :
        \E r \in Responses :
            /\ WouldReturn(a, x, r)
            /\ \/ r = x.response
               \/ StoredAfterMiss(a, x, x.response) /\ StoredAfterMiss(a, x, r)

\* a second call answered from the cache with what the first one returned
C11_Witness ==
    \E t \in Threads :
        /\ call[t].pc = "done"
        /\ call[t].kind \in {"query", "query_history"}
        /\ call[t].held
        /\ \E x \in returned :
              /\ call[t].adapter \in WrappersOf(x)
              /\ x.messages_hash = call[t].messages_hash
              /\ x.response = call[t].result
              /\ WouldReturn(call[t].adapter, x, x.response)

\* the step starts a call to query or query_history on wrapper a
StartsCallOn(a) ==
    \E t \in Threads :
        /\ call[t].pc = "idle"
        /\ call'[t].pc # "idle"
        /\ call'[t].kind \in {"query", "query_history"}
        /\ call'[t].adapter = a

C12_Step ==
    /\ Len(adapters') >= Len(adapters)
    /\ \A a \in 1..Len(adapters) :
          adapters'[a].count_queries =
              adapters[a].count_queries + (IF StartsCallOn(a) THEN 1 ELSE 0)
    /\ \A a \in (Len(adapters) + 1)..Len(adapters') : adapters'[a].count_queries = 0

\* C12: each call to query or query_history adds exactly 1 to the
\* count_queries of the wrapper it is made on, whether it is answered from the
\* cache, from the backend, or fails; no other step changes a counter, a new
\* wrapper starts at 0, and the counters of the other wrappers stay as they are.
C12_CounterCounts == [][C12_Step]_vars

\* the second call on one wrapper has failed after ten attempts; the other
\* wrapper was never called
C12_Witness ==
    \E t \in Threads : \E b \in 1..Len(adapters) :
        /\ call[t].pc = "raised"
        /\ call[t].attempts = 10
        /\ adapters[call[t].adapter].count_queries = 2
        /\ b # call[t].adapter
        /\ adapters[b].count_queries = 0

\* thread t is in a call to query or query_history on cache i under key k
CallOn(t, i, k) ==
    /\ call[t].kind \in {"query", "query_history"}
    /\ adapters[call[t].adapter].cache = i
    /\ CacheKey(call[t].messages_hash, adapters[call[t].adapter].model) = k

\* a call that found no entry, was answered by the backend and has left the
\* network path finds the key held
C13_State ==
    \A t \in Threads :
        (call[t].missed /\ call[t].answers # {}
                /\ call[t].pc \in {"get_result", "done", "raised"}) =>
            has_hash(CacheOf(call[t].adapter), call[t].messages_hash,
                     adapters[call[t].adapter].model)

\* an entry appears or changes only by the add_result of a call for its key,
\* and then holds that call's conversation and a text the backend answered it
C13_Step ==
    /\ \A i \in 1..Len(caches) : \A k \in DOMAIN caches'[i] :
          (k \notin DOMAIN caches[i] \/ caches'[i][k] # caches[i][k]) =>
              \E t \in Threads :
                  /\ CallOn(t, i, k)
                  /\ call[t].pc = "add_result"
                  /\ caches'[i][k].response \in call[t].answers
                  /\ caches'[i][k].payload = Payload(call[t].messages)
    /\ \A i \in (Len(caches) + 1)..Len(caches') : caches'[i] = <<>>

\* C13: two overlapping calls for one (model, fingerprint) can both find no
\* entry and both ask the backend; however the calls interleave, the cache
\* then holds one entry for the key, and its response is a text the backend
\* answered to one of those calls.
C13_AtLeastOnceInvocation == [] C13_State /\ [][C13_Step]_vars

\* with one caller at a time: until its own add_result the key of a call that
\* found no entry is not held, neither during the attempts nor after a failure
C14_State ==
    \A t \in Threads :
        (call[t].missed /\ call[t].pc \in {"invoke", "add_result", "raised"}) =>
            ~has_hash(CacheOf(call[t].adapter), call[t].messages_hash,
                      adapters[call[t].adapter].model)

\* an entry is written only by a call for its key that found no entry, has
\* made a network attempt and was answered on its last one; held keys stay held
C14_Step ==
    /\ \A i \in 1..Len(caches) : \A k \in DOMAIN caches'[i] :
          (k \notin DOMAIN caches[i] \/ caches'[i][k] # caches[i][k]) =>
              \E t \in Threads :
                  /\ CallOn(t, i, k)
                  /\ call[t].pc = "add_result"
                  /\ call'[t].pc = "get_result"
                  /\ call[t].missed
                  /\ call[t].netcalls >= 1
                  /\ call[t].nOk = 1
                  /\ call[t].attempts <= 10
                  /\ call[t].error = "none"
                  /\ caches'[i][k].response = call[t].response
                  /\ call[t].response \in call[t].answers
    /\ \A i \in 1..Len(caches) : \A k \in DOMAIN caches[i] : k \in DOMAIN caches'[i]

\* C14: within one call the cache write for (model, fingerprint) comes only
\* after that call found no entry and then got an answer from the network,
\* never after the attempts ran out and never before an attempt; after the
\* write every has_hash for the key is true.
C14_WriteOrdering == [] C14_State /\ [][C14_Step]_vars

\* a call that found no entry, was refused, then answered, and has stored
C14_Witness ==
    \E t \in Threads :
        /\ call[t].missed
        /\ call[t].nRate >= 1
        /\ call[t].nOk = 1
        /\ call[t].pc = "get_result"
        /\ has_hash(CacheOf(call[t].adapter), call[t].messages_hash,
                    adapters[call[t].adapter].model)
        /\ get_result(CacheOf(call[t].adapter), call[t].messages_hash,
                      adapters[call[t].adapter].model) = call[t].response

\* C15: query(system_prompt, p) and query_history(system_prompt, p, no
\* history) hand the hashing function the same inputs, the message list of
\* the call and the system prompt the caller passed, so both paths address
\* the same cache entry.
C15_SameCanonicalization ==
    \A t \in Threads :
        (call[t].kind \in {"query", "query_history"} /\ call[t].error # "AssertionError") =>
            call[t].messages_hash = hash_messages(call[t].messages, call[t].given)

\* C16: however concurrent calls interleave, a call executes get_result only
\* while the cache holds an entry for its key, because has_hash was true or
\* the call has just added the entry; no call fails with NotFound.
C16_GetResultPrecondition ==
    \A t \in Threads :
        /\ call[t].error # "NotFound"
        /\ call[t].pc = "get_result" =>
              /\ has_hash(CacheOf(call[t].adapter), call[t].messages_hash,
                          adapters[call[t].adapter].model)
              /\ ~call[t].missed \/ call[t].nOk = 1

\* two overlapping calls for one key about to read: one has just added the
\* entry, the other found it at its lookup
C16_Witness ==
    \E t, u \in Threads :
        /\ call[t].pc = "get_result"
        /\ call[u].pc = "get_result"
        /\ call[t].missed
        /\ ~call[u].missed
        /\ ~call[u].held
        /\ adapters[call[t].adapter].cache = adapters[call[u].adapter].cache
        /\ adapters[call[t].adapter].model = adapters[call[u].adapter].model
        /\ call[t].messages_hash = call[u].messages_hash

C17_Step ==
    /\ Len(caches') >= Len(caches)
    /\ \A i \in 1..Len(caches) : \A k \in DOMAIN caches[i] : k \in DOMAIN caches'[i]
    /\ \A params \in DOMAIN pool : params \in DOMAIN pool' /\ pool'[params] = pool[params]

\* C17: no step of query, query_history, get_info or the construction of a
\* wrapper removes a cache entry: the keys held after a step include the keys
\* held before it, and every registered cache stays registered.
C17_CacheOnlyGrows == [][C17_Step]_vars

\* a cache holding two entries, after a second wrapper was built and asked
\* for its description
C17_Witness ==
    \E i \in 1..Len(caches) : \E k1, k2 \in DOMAIN caches[i] :
        /\ k1 # k2
        /\ Len(adapters) = 2
        /\ call[1].kind = "get_info"
        /\ call[1].pc = "done"
        /\ call[1].info = get_info(call[1].adapter)

C18_State ==
    \A t \in Threads :
        /\ call[t].attempts <= 10
        /\ call[t].netcalls = call[t].attempts
        /\ call[t].pc = "invoke" => call[t].attempts < 10

\* a step of the network path is one attempt: it adds 1 to the attempt counter
C18_Step ==
    \A t \in Threads :
        call[t].pc = "invoke" =>
            /\ call'[t].attempts = call[t].attempts + 1
            /\ call'[t].netcalls = call[t].netcalls + 1
            /\ call'[t].pc \in {"invoke", "add_result", "raised"}

\* C18: under every backend behaviour invoke_model_with_messages comes to an
\* end, by returning a response or by raising, after at most 10 network
\* attempts; the attempt counter grows by exactly 1 per attempt and never
\* exceeds 10.
C18_InvokeTerminates ==
    /\ [] C18_State
    /\ [][C18_Step]_vars
    /\ \A t \in Threads : (call[t].pc = "invoke") ~> (call[t].pc \in {"add_result", "raised"})

\* the tenth attempt failed, after rate limits and other failures
C18_Witness ==
    \E t \in Threads :
        /\ call[t].pc = "raised"
        /\ call[t].error = "ValueError"
        /\ call[t].attempts = 10
        /\ call[t].nRate >= 1
        /\ call[t].nOther >= 1

Rejected(c) == c.kind = "query" /\ c.given # None /\ c.given # EmptyStr

\* the rejected call has failed with nothing looked up, sent or stored
C19_State ==
    \A t \in Threads :
        Rejected(call[t]) =>
            /\ call[t].pc = "raised"
            /\ call[t].error = "AssertionError"
            /\ call[t].attempts = 0
            /\ call[t].netcalls = 0
            /\ call[t].sent = NoRequest
            /\ ~call[t].missed
            /\ call[t].result = ""

\* the step that makes the call and the step that hands the error to the
\* caller leave the caches as they are; the first one counts the call
C19_Step ==
    \A t \in Threads :
        /\ Rejected(call'[t]) =>
              /\ caches' = caches
              /\ pool' = pool
              /\ call[t].pc = "idle" =>
                    adapters'[call'[t].adapter].count_queries =
                        adapters[call'[t].adapter].count_queries + 1
        /\ Rejected(call[t]) => (caches' = caches /\ pool' = pool)

\* C19: a call to query with a system prompt that is neither None nor the
\* empty string fails with an assertion error before any cache lookup, network
\* attempt or cache write; the cache is as it was and only the query counter
\* has advanced.
C19_QueryRejectsSystemPrompt == [] C19_State /\ [][C19_Step]_vars

\* the second call on a wrapper, rejected while the cache holds the entry of
\* the first
C19_Witness ==
    \E t \in Threads :
        /\ Rejected(call[t])
        /\ call[t].given = <<"S">>
        /\ call[t].error = "AssertionError"
        /\ adapters[call[t].adapter].count_queries = 2
        /\ CacheOf(call[t].adapter) # <<>>

\* wrappers a and b were asked for with the same model name behind their
\* prefixes and have the same temperature and max_tokens
SameArguments(a, b) ==
    /\ RequestedModel(adapters[a].req_name) = RequestedModel(adapters[b].req_name)
    /\ adapters[a].temperature = adapters[b].temperature
    /\ adapters[a].max_tokens = adapters[b].max_tokens

\* what the backend answered a call through one variant is held for the
\* wrappers of every variant
C20_Stored ==
    \A t \in Threads :
        (call[t].kind \in {"query", "query_history"} /\ call[t].answers # {}
                /\ call[t].pc \in {"get_result", "done", "raised"}) =>
            \A b \in 1..Len(adapters) :
                SameArguments(call[t].adapter, b) =>
                    /\ has_hash(CacheOf(b), call[t].messages_hash, adapters[b].model)
                    /\ get_result(CacheOf(b), call[t].messages_hash, adapters[b].model)
                           \in call[t].answers

\* a call for a conversation that a wrapper of any variant has returned a
\* response for asks no backend and returns that response
C20_Hit ==
    \A t \in Threads : \A x \in returned :
        (/\ call[t].pc \in {"get_result", "done"}
         /\ call[t].kind \in {"query", "query_history"}
         /\ call[t].held
         /\ call[t].adapter \in WrappersOf(x)
         /\ call[t].messages_hash = x.messages_hash) =>
            /\ call[t].netcalls = 0
            /\ call[t].pc = "done" => call[t].result = x.response

\* C20: the cache key is (model without prefix, fingerprint) inside the
\* (temperature, max_tokens) partition and leaves out the variant: a response
\* stored through a vllm/ wrapper is a hit, with no network call, for an
\* openrouter/ wrapper with the same model, temperature, max_tokens and
\* conversation, and the other way round.
C20_SharedAcrossVariants == C20_Stored /\ C20_Hit

\* wrapper a was asked for under a vllm/ or openrouter/ name
PrefixedName(a) ==
    \/ StartsWith(VLLMPrefix, adapters[a].req_name)
    \/ StartsWith(OPENROUTERPrefix, adapters[a].req_name)

\* C21: the cache of a wrapper that get_llm built for a vllm/ or openrouter/
\* name goes by the clamped max_tokens: at one temperature two wrappers asked
\* for with max_tokens of 40960 or more hold the same cache whatever the two
\* values, and two asked for with values below 40960 hold the same cache only
\* if the values are equal.
C21_PartitionByClampedTokens ==
    \A a, b \in 1..Len(adapters) :
        (/\ PrefixedName(a)
         /\ PrefixedName(b)
         /\ adapters[a].temperature = adapters[b].temperature) =>
            /\ (adapters[a].req_max_tokens >= 40960 /\ adapters[b].req_max_tokens >= 40960) =>
                    adapters[a].cache = adapters[b].cache
            /\ (/\ adapters[a].req_max_tokens < 40960
                /\ adapters[b].req_max_tokens < 40960
                /\ adapters[a].cache = adapters[b].cache) =>
                    adapters[a].req_max_tokens = adapters[b].req_max_tokens

\* wrappers of the two variants, asked for with 40960 and with 100000 tokens,
\* on the one cache there is
C21_Witness ==
    \E a, b \in 1..Len(adapters) :
        /\ adapters[a].variant = "VLLM"
        /\ adapters[b].variant = "OPENROUTER"
        /\ adapters[a].temperature = adapters[b].temperature
        /\ adapters[a].req_max_tokens = 40960
        /\ adapters[b].req_max_tokens = 100000
        /\ adapters[a].cache = adapters[b].cache
        /\ Len(caches) = 1

====
